---- MODULE Spec2Model ----
(***************************************************************************)
(* The transaction coordinator of runs/transaction/transaction.py: the     *)
(* Transaction context manager, its five typed queues, the three phase     *)
(* loop of __exit__ (sort, validate, execute) and the natural sort key.    *)
(*                                                                         *)
(* A path is a sequence of one-character strings.  The records of a queue  *)
(* are TLA+ records.  The calls made on collaborators (db.__enter__,       *)
(* db.__exit__, st.validate, st.execute) are recorded in `log` in the      *)
(* order in which the coordinator makes them.                              *)
(***************************************************************************)
EXTENDS Integers, Sequences, FiniteSets, TLC

\* ------------------------------------------------------------ bounds
\* The number of add_* calls the caller makes inside the scope.
MaxAdds == 2
\* The length of the queue the sorting specification draws.
MaxSortLen == 3

\* ------------------------------------------------------------ characters and paths
Digits == {"0", "1", "2", "3", "4", "5", "6", "7", "8", "9"}

\* The character U+00B2, SUPERSCRIPT TWO: a digit to str.isdigit, but neither
\* matched by \d nor accepted by int.
Superscript2 == "sup2"

\* Code points of the characters the paths of the model use.
Ord(c) ==
    CASE c = "-" -> 45 [] c = "/" -> 47
      [] c = "0" -> 48 [] c = "1" -> 49 [] c = "2" -> 50 [] c = "3" -> 51
      [] c = "4" -> 52 [] c = "5" -> 53 [] c = "6" -> 54 [] c = "7" -> 55
      [] c = "8" -> 56 [] c = "9" -> 57
      [] c = "e" -> 101 [] c = "n" -> 110 [] c = "p" -> 112
      [] c = "r" -> 114 [] c = "u" -> 117 [] c = "x" -> 120
      [] c = Superscript2 -> 178

Run2 == <<"r", "u", "n", "-", "2">>
Run10 == <<"r", "u", "n", "-", "1", "0">>
Run02 == <<"r", "u", "n", "-", "0", "2">>
Exp1 == <<"e", "x", "p", "/", "1">>
Exp10 == <<"e", "x", "p", "/", "1", "0">>
Exp1Sup2 == <<"e", "x", "p", "/", "1", Superscript2>>
RunSup2 == <<"r", "u", "n", Superscript2>>

\* The paths callers pass to the add_* methods.
Paths == {Run2, Run10}
\* The paths of the queues the sorting specification draws.
SortPaths == {Run2, Run10, Run02, Exp1, Exp10}
\* The paths of the queues the key specification draws.
KeyPaths == {Run2, RunSup2, Exp1Sup2}

\* ------------------------------------------------------------ natural_keys
\* \d of re.split
IsReDigit(c) == c \in Digits

\* str.isdigit of a character
IsDigitChar(c) == c \in Digits \cup {Superscript2}

\* str.isdigit of a token: non-empty, every character a digit
isdigit(tok) == tok # <<>> /\ \A i \in 1..Len(tok) : IsDigitChar(tok[i])

\* The first index >= i of text whose character is (is not) a digit, or
\* Len(text) + 1.
RECURSIVE RunEnd(_, _, _)
RunEnd(text, i, digit) ==
    IF i > Len(text) \/ IsReDigit(text[i]) # digit THEN i
    ELSE RunEnd(text, i + 1, digit)

\* re.split('(\d+)', text[i..]): non-digit run, digit run, ..., non-digit run
RECURSIVE re_split(_, _)
re_split(text, i) ==
    LET j == RunEnd(text, i, FALSE)
        head == SubSeq(text, i, j - 1)
    IN  IF j > Len(text) THEN <<head>>
        ELSE LET m == RunEnd(text, j, TRUE)
             IN  <<head, SubSeq(text, j, m - 1)>> \o re_split(text, m)

\* int(c) of a digit token
RECURSIVE int(_)
int(tok) ==
    IF tok = <<>> THEN 0
    ELSE 10 * int(SubSeq(tok, 1, Len(tok) - 1)) + (Ord(tok[Len(tok)]) - Ord("0"))

IntTok(c) == [isint |-> TRUE, n |-> int(c), s |-> <<>>]
StrTok(c) == [isint |-> FALSE, n |-> 0, s |-> c]

\* a mutant of natural_keys: digit runs are left as strings
natural_keys_lexical(text) ==
    [i \in 1..Len(re_split(text, 1)) |-> StrTok(re_split(text, 1)[i])]

\* [int(c) if c.isdigit() else c for c in re.split('(\d+)', text)]
natural_keys(text) ==
    LET toks == re_split(text, 1)
    IN  [i \in 1..Len(toks) |-> IF isdigit(toks[i]) THEN IntTok(toks[i])
                                                    ELSE StrTok(toks[i])]

\* natural_keys(text) raises ValueError: int(c) is called on a token that
\* holds a character int does not accept
natural_keys_raises(text) ==
    LET toks == re_split(text, 1)
    IN  \E i \in 1..Len(toks) :
            isdigit(toks[i]) /\ \E j \in 1..Len(toks[i]) : toks[i][j] \notin Digits

\* Python's str < str: by code point, a proper prefix is smaller
RECURSIVE StrLess(_, _)
StrLess(a, b) ==
    IF b = <<>> THEN FALSE
    ELSE IF a = <<>> THEN TRUE
    ELSE IF Ord(a[1]) # Ord(b[1]) THEN Ord(a[1]) < Ord(b[1])
    ELSE StrLess(Tail(a), Tail(b))

TokEq(x, y) == x.isint = y.isint /\ x.n = y.n /\ x.s = y.s

TokLess(x, y) == IF x.isint THEN x.n < y.n ELSE StrLess(x.s, y.s)

\* Python's list < list: the first differing pair decides, a proper prefix
\* is smaller
RECURSIVE KeyLess(_, _)
KeyLess(a, b) ==
    IF b = <<>> THEN FALSE
    ELSE IF a = <<>> THEN TRUE
    ELSE IF ~TokEq(a[1], b[1]) THEN TokLess(a[1], b[1])
    ELSE KeyLess(Tail(a), Tail(b))

\* ------------------------------------------------------------ kinds and records
\* TransactionType: the field order of the namedtuple is the iteration order
\* of self.sub_transactions
TransactionType_new_run_first ==
    <<"new_run", "description_change", "interrupt", "removal", "move">>

TransactionType ==
    <<"description_change", "interrupt", "removal", "move", "new_run">>

NKinds == Len(TransactionType)

Kinds == {TransactionType[i] : i \in 1..NKinds}

Descriptions == {"A", "B"}

\* The records each add_* method builds.  remove and interrupt queue the
\* path itself.
Move(src, dest, kill_tmux) == [src |-> src, dest |-> dest, kill_tmux |-> kill_tmux]
RunEntry(path, description) == [path |-> path, description |-> description]
DescriptionChange(path, new_description) ==
    [path |-> path, new_description |-> new_description]

\* str(x) of a Move, RunEntry or DescriptionChange record: its path string
RecordPath(kind, x) == IF kind = "move" THEN x.src ELSE x.path

\* str(x) of a queued record
str(kind, x) ==
    IF kind \in {"removal", "interrupt"} THEN x ELSE RecordPath(kind, x)

\* ------------------------------------------------------------ sorted
\* a mutant of sorted: the queue is left as it is
sorted_unchanged(kind, q) == q

\* a mutant of Insert: x is placed before the elements of equal key
RECURSIVE Insert_before_equal(_, _, _)
Insert_before_equal(kind, s, x) ==
    IF s = <<>> THEN <<x>>
    ELSE IF ~KeyLess(natural_keys(str(kind, s[1])), natural_keys(str(kind, x)))
         THEN <<x>> \o s
         ELSE <<s[1]>> \o Insert_before_equal(kind, Tail(s), x)

\* a mutant of Insert: a record whose key is already there is dropped
RECURSIVE Insert_drop_equal(_, _, _)
Insert_drop_equal(kind, s, x) ==
    IF s = <<>> THEN <<x>>
    ELSE IF KeyLess(natural_keys(str(kind, x)), natural_keys(str(kind, s[1])))
         THEN <<x>> \o s
         ELSE IF ~KeyLess(natural_keys(str(kind, s[1])), natural_keys(str(kind, x)))
                THEN s
                ELSE <<s[1]>> \o Insert_drop_equal(kind, Tail(s), x)

\* x placed after every element whose key is not greater (a stable sort)
RECURSIVE Insert(_, _, _)
Insert(kind, s, x) ==
    IF s = <<>> THEN <<x>>
    ELSE IF KeyLess(natural_keys(str(kind, x)), natural_keys(str(kind, s[1])))
         THEN <<x>> \o s
         ELSE <<s[1]>> \o Insert(kind, Tail(s), x)

RECURSIVE SortedPrefix(_, _, _)
SortedPrefix(kind, q, n) ==
    IF n = 0 THEN <<>> ELSE Insert(kind, SortedPrefix(kind, q, n - 1), q[n])

\* sorted(st.queue, key=lambda x: natural_keys(str(x)))
sorted(kind, q) == SortedPrefix(kind, q, Len(q))

\* ------------------------------------------------------------ state
VARIABLES
    pc,         \* where the wrapper is: "init", "scope", "loop", "finalize",
                \* "done" (returned) or "raised" (an error left the scope)
    queue,      \* queue[kind]: st.queue of each sub-transaction
    persisted,  \* the paths of the runs the database holds
    log,        \* the calls made on the collaborators, in order
    args,       \* what __exit__ was called with: "none" or the caller's error
    exc,        \* the error the caller of the wrapper observes, or "none"
    phase,      \* index into Phases of the outer loop of __exit__
    k,          \* index into TransactionType of the inner loop
    pos         \* index into st.queue of the loop of execute

vars == <<pc, queue, persisted, log, args, exc, phase, k, pos>>

\* res: "ok" when the call returned, "raised" when it raised
Event(op, kind, rec, res) == [op |-> op, kind |-> kind, rec |-> rec, res |-> res]

NoRec == <<>>

\* for process in [sort, validate, execute]
Phases_execute_first == <<"sort", "execute", "validate">>

Phases == <<"sort", "validate", "execute">>

\* __exit__ ignores its arguments when it runs the phases
PhasesOnExit_skip_on_error(a) == IF a = "none" THEN Phases ELSE <<>>

PhasesOnExit(a) == Phases

\* if sub_transaction.queue
ShouldProcess_always(q) == TRUE

ShouldProcess(q) == q # <<>>

\* where control goes when validate or execute raises inside __exit__: the
\* error leaves __exit__ at once, line 94 is not reached
OnRaise_finally == "finalize"

OnRaise == "raised"

Init ==
    /\ pc = "init"
    /\ queue = [kind \in Kinds |-> <<>>]
    /\ persisted \in SUBSET Paths
    /\ log = <<>>
    /\ args = "none"
    /\ exc = "none"
    /\ phase = 1
    /\ k = 1
    /\ pos = 1

\* ------------------------------------------------------------ __enter__
\* a mutant of Enter: the session is not opened
Enter_without_db ==
    /\ pc = "init"
    /\ pc' = "scope"
    /\ UNCHANGED <<queue, persisted, log, args, exc, phase, k, pos>>

\* self.db = self.db.__enter__()
Enter ==
    /\ pc = "init"
    /\ pc' = "scope"
    /\ log' = Append(log, Event("db_enter", "db", NoRec, "ok"))
    /\ UNCHANGED <<queue, persisted, args, exc, phase, k, pos>>

\* ------------------------------------------------------------ add_*
NumAdded == Len(SelectSeq(log, LAMBDA e : e.op = "add"))

\* SubTransaction.add: the record is appended to the queue of its kind
Add(kind, rec) ==
    /\ pc = "scope"
    /\ NumAdded < MaxAdds
    /\ queue' = [queue EXCEPT ![kind] = Append(@, rec)]
    /\ log' = Append(log, Event("add", kind, rec, "ok"))
    /\ UNCHANGED <<pc, persisted, args, exc, phase, k, pos>>

add_run == \E path \in Paths, d \in Descriptions : Add("new_run", RunEntry(path, d))

move == \E src \in Paths, dest \in Paths : Add("move", Move(src, dest, FALSE))

\* a mutant of remove: the path is queued for interruption
remove_as_interrupt == \E path \in Paths : Add("interrupt", path)

remove == \E path \in Paths : Add("removal", path)

interrupt == \E path \in Paths : Add("interrupt", path)

change_description ==
    \E path \in Paths, d \in Descriptions :
        Add("description_change", DescriptionChange(path, d))

\* ------------------------------------------------------------ leaving the scope
\* The first position of the loops of __exit__ called with a, or "finalize"
\* when there is nothing to loop over.
EnterExit(a) ==
    /\ args' = a
    /\ phase' = 1
    /\ k' = 1
    /\ pos' = 1
    /\ pc' = IF PhasesOnExit(a) = <<>> THEN "finalize" ELSE "loop"

\* func returns: __exit__(None, None, None)
BodyReturn ==
    /\ pc = "scope"
    /\ EnterExit("none")
    /\ UNCHANGED <<queue, persisted, log, exc>>

\* func raises: __exit__(type, value, traceback)
BodyRaise ==
    /\ pc = "scope"
    /\ EnterExit("error")
    /\ exc' = "caller"
    /\ UNCHANGED <<queue, persisted, log>>

\* ------------------------------------------------------------ sub-transactions
\* RemovalTransaction.validate and MoveTransaction.validate: the conflicts of
\* the queue with itself and with the persisted runs on which validate fails
ValidateConflict(kind, q, runs) ==
    CASE kind = "removal" -> \E i \in 1..Len(q) : q[i] \notin runs
      [] kind = "move" ->
            \/ \E i \in 1..Len(q) : q[i].src \notin runs
            \/ \E i \in 1..Len(q) : q[i].dest \in runs
            \/ \E i, j \in 1..Len(q) : i # j /\ q[i].dest = q[j].dest
      [] OTHER -> FALSE

\* st.execute(x): what the record does to the persisted runs
ExecuteEffect(kind, x, runs) ==
    CASE kind = "removal" -> runs \ {x}
      [] kind = "move" -> (runs \ {x.src}) \cup {x.dest}
      [] kind = "new_run" -> runs \cup {x.path}
      [] OTHER -> runs

\* ------------------------------------------------------------ __exit__
Process == PhasesOnExit(args)[phase]

CurrentKind == TransactionType[k]

\* a mutant of Advance: the loops are nested the other way round, every
\* process of one sub-transaction before the next sub-transaction
Advance_kind_major ==
    /\ pos' = 1
    /\ IF phase < Len(PhasesOnExit(args))
         THEN phase' = phase + 1 /\ UNCHANGED <<k, pc>>
         ELSE IF k < NKinds
                THEN phase' = 1 /\ k' = k + 1 /\ UNCHANGED pc
                ELSE pc' = "finalize" /\ UNCHANGED <<phase, k>>

\* the next iteration of "for process in ...: for sub_transaction in ...",
\* or line 94 after the last one
Advance ==
    /\ pos' = 1
    /\ IF k < NKinds
         THEN k' = k + 1 /\ UNCHANGED <<phase, pc>>
         ELSE IF phase < Len(PhasesOnExit(args))
                THEN k' = 1 /\ phase' = phase + 1 /\ UNCHANGED pc
                ELSE pc' = "finalize" /\ UNCHANGED <<phase, k>>

\* a mutant of Raise: the error is caught around process(sub_transaction)
\* and the loops go on
Raise_continues(e) ==
    /\ exc' = e
    /\ Advance

\* an error raised inside __exit__ replaces the one __exit__ was called for
Raise(e) ==
    /\ exc' = e
    /\ pc' = OnRaise
    /\ UNCHANGED <<phase, k, pos>>

\* the queue is falsy (or execute iterates over no record): nothing is called
Skip ==
    /\ pc = "loop"
    /\ \/ ~ShouldProcess(queue[CurrentKind])
       \/ Process = "execute" /\ queue[CurrentKind] = <<>>
    /\ Advance
    /\ UNCHANGED <<queue, persisted, log, args, exc>>

\* sorted calls the key function on every record of the queue
SortRaises(kind, q) == \E i \in 1..Len(q) : natural_keys_raises(str(kind, q[i]))

\* sort(st): st.queue = sorted(st.queue, key=...)
Sort ==
    /\ pc = "loop"
    /\ Process = "sort"
    /\ ShouldProcess(queue[CurrentKind])
    /\ ~SortRaises(CurrentKind, queue[CurrentKind])
    /\ queue' = [queue EXCEPT ![CurrentKind] = sorted(CurrentKind, @)]
    /\ log' = Append(log, Event("sort", CurrentKind, NoRec, "ok"))
    /\ Advance
    /\ UNCHANGED <<persisted, args, exc>>

\* sort(st): the key function raises and the error leaves __exit__
SortRaise ==
    /\ pc = "loop"
    /\ Process = "sort"
    /\ ShouldProcess(queue[CurrentKind])
    /\ SortRaises(CurrentKind, queue[CurrentKind])
    /\ log' = Append(log, Event("sort", CurrentKind, NoRec, "raised"))
    /\ Raise("sort")
    /\ UNCHANGED <<queue, persisted, args>>

\* validate(st): st.validate() returns
ValidateOk ==
    /\ pc = "loop"
    /\ Process = "validate"
    /\ ShouldProcess(queue[CurrentKind])
    /\ ~ValidateConflict(CurrentKind, queue[CurrentKind], persisted)
    /\ log' = Append(log, Event("validate", CurrentKind, NoRec, "ok"))
    /\ Advance
    /\ UNCHANGED <<queue, persisted, args, exc>>

\* validate(st): st.validate() raises, on a conflict of the model or on one
\* with state the model does not hold (a stale description, a refusal)
ValidateRaise ==
    /\ pc = "loop"
    /\ Process = "validate"
    /\ ShouldProcess(queue[CurrentKind])
    /\ log' = Append(log, Event("validate", CurrentKind, NoRec, "raised"))
    /\ Raise("validate")
    /\ UNCHANGED <<queue, persisted, args>>

\* execute(st): st.execute(x) returns for the record at pos
ExecuteOk ==
    /\ pc = "loop"
    /\ Process = "execute"
    /\ ShouldProcess(queue[CurrentKind])
    /\ pos <= Len(queue[CurrentKind])
    /\ log' = Append(log, Event("execute", CurrentKind, queue[CurrentKind][pos], "ok"))
    /\ persisted' = ExecuteEffect(CurrentKind, queue[CurrentKind][pos], persisted)
    /\ IF pos < Len(queue[CurrentKind])
         THEN pos' = pos + 1 /\ UNCHANGED <<pc, phase, k>>
         ELSE Advance
    /\ UNCHANGED <<queue, args, exc>>

\* execute(st): st.execute(x) raises for the record at pos
ExecuteRaise ==
    /\ pc = "loop"
    /\ Process = "execute"
    /\ ShouldProcess(queue[CurrentKind])
    /\ pos <= Len(queue[CurrentKind])
    /\ log' = Append(log, Event("execute", CurrentKind, queue[CurrentKind][pos], "raised"))
    /\ Raise("execute")
    /\ UNCHANGED <<queue, persisted, args>>

\* a mutant of Finalize: the queues are emptied once the session is finalized
Finalize_clears_queues ==
    /\ pc = "finalize"
    /\ log' = Append(log, Event("db_exit", "db", args, "ok"))
    /\ pc' = IF exc = "none" THEN "done" ELSE "raised"
    /\ queue' = [kind \in Kinds |-> <<>>]
    /\ UNCHANGED <<persisted, args, exc, phase, k, pos>>

\* a mutant of Finalize: __exit__ returns a true value and the with statement
\* swallows the error
Finalize_swallows ==
    /\ pc = "finalize"
    /\ log' = Append(log, Event("db_exit", "db", args, "ok"))
    /\ pc' = "done"
    /\ UNCHANGED <<queue, persisted, args, exc, phase, k, pos>>

\* self.db.__exit__(*args); __exit__ returns None, so the with statement
\* re-raises the error it was left with
Finalize ==
    /\ pc = "finalize"
    /\ log' = Append(log, Event("db_exit", "db", args, "ok"))
    /\ pc' = IF exc = "none" THEN "done" ELSE "raised"
    /\ UNCHANGED <<queue, persisted, args, exc, phase, k, pos>>

Next ==
    \/ Enter
    \/ add_run
    \/ move
    \/ remove
    \/ interrupt
    \/ change_description
    \/ BodyReturn
    \/ BodyRaise
    \/ Skip
    \/ Sort
    \/ ValidateOk
    \/ ValidateRaise
    \/ ExecuteOk
    \/ ExecuteRaise
    \/ Finalize

Spec == Init /\ [][Next]_vars

\* ------------------------------------------------------------ sorting alone
\* The coordinator at the start of __exit__ with the removals drawn from the
\* sequences over SortPaths, or the new runs from those over Paths, or the
\* interrupts and the removals from those over Paths; every path persisted.
RECURSIVE SeqsUpTo(_, _)
SeqsUpTo(S, n) ==
    IF n = 0 THEN {<<>>}
    ELSE LET shorter == SeqsUpTo(S, n - 1)
         IN  shorter \cup {Append(q, x) : q \in shorter, x \in S}

AddsLog(kind, q) ==
    <<Event("db_enter", "db", NoRec, "ok")>> \o [i \in 1..Len(q) |-> Event("add", kind, q[i], "ok")]

InitSort ==
    /\ pc = "loop"
    /\ \/ \E q \in SeqsUpTo(SortPaths, MaxSortLen) :
            /\ queue = [kind \in Kinds |-> IF kind = "removal" THEN q ELSE <<>>]
            /\ log = AddsLog("removal", q)
       \/ \E q \in SeqsUpTo({RunEntry(path, d) : path \in Paths, d \in Descriptions},
                             MaxSortLen) :
            /\ queue = [kind \in Kinds |-> IF kind = "new_run" THEN q ELSE <<>>]
            /\ log = AddsLog("new_run", q)
       \/ \E q \in SeqsUpTo(Paths, MaxSortLen), r \in SeqsUpTo(Paths, MaxSortLen) :
            /\ queue = [kind \in Kinds |-> IF kind = "interrupt" THEN q
                                           ELSE IF kind = "removal" THEN r ELSE <<>>]
            /\ log = AddsLog("removal", r)
                       \o [i \in 1..Len(q) |-> Event("add", "interrupt", q[i], "ok")]
    /\ persisted = SortPaths
    /\ args = "none"
    /\ exc = "none"
    /\ phase = 1
    /\ k = 1
    /\ pos = 1

NextSort ==
    \/ Skip
    \/ Sort
    \/ ValidateOk
    \/ ValidateRaise
    \/ ExecuteOk
    \/ ExecuteRaise
    \/ Finalize

SpecSort == InitSort /\ [][NextSort]_vars

\* ------------------------------------------------------------ reading the log
Calls == DOMAIN log

IsCall(i, op) == log[i].op = op

\* some validate or execute call raised during __exit__
SomeCallRaised == \E i \in Calls : log[i].res = "raised"

Left == pc \in {"done", "raised"}

NonEmptyKinds == {kind \in Kinds : queue[kind] # <<>>}

\* the records passed to the execute of kind, in call order
Executed(kind) ==
    LET calls == SelectSeq(log, LAMBDA e : e.op = "execute" /\ e.kind = kind)
    IN  [i \in 1..Len(calls) |-> calls[i].rec]

NumCalls(op) == Len(SelectSeq(log, LAMBDA e : e.op = op))

\* ------------------------------------------------------------ C1
\* C1: every execute call is preceded by a validate call that returned, for
\* every kind whose queue is non-empty; and once a validate call has raised
\* there is no execute call of any kind in the log.
PhaseOrdering ==
    /\ \A i \in Calls :
          IsCall(i, "execute") =>
              \A kind \in NonEmptyKinds :
                  \E j \in 1..(i - 1) :
                      /\ IsCall(j, "validate")
                      /\ log[j].kind = kind
                      /\ log[j].res = "ok"
    /\ (\E j \in Calls : IsCall(j, "validate") /\ log[j].res = "raised")
          => NumCalls("execute") = 0

\* two kinds are queued, the first validated, the second failed to, and the
\* error has left the scope
PhaseOrderingWitness ==
    /\ pc = "raised"
    /\ exc = "validate"
    /\ Cardinality(NonEmptyKinds) = 2
    /\ NumCalls("validate") = 2
    /\ NumCalls("execute") = 0

\* ------------------------------------------------------------ C2
KindRank(kind) ==
    CASE kind = "description_change" -> 1
      [] kind = "interrupt" -> 2
      [] kind = "removal" -> 3
      [] kind = "move" -> 4
      [] kind = "new_run" -> 5

\* C2: of two execute calls, the earlier one is never of a later kind in the
\* order description-change, interrupt, removal, move, new-run.
KindOrdering ==
    \A i, j \in Calls :
        (i < j /\ IsCall(i, "execute") /\ IsCall(j, "execute"))
            => KindRank(log[i].kind) <= KindRank(log[j].kind)

\* a new run was added before a description change, and both were executed
KindOrderingWitness ==
    /\ pc = "done"
    /\ \E i, j \in Calls :
          /\ i < j
          /\ IsCall(i, "add") /\ log[i].kind = "new_run"
          /\ IsCall(j, "add") /\ log[j].kind = "description_change"
    /\ \E i, j \in Calls :
          /\ i < j
          /\ IsCall(i, "execute") /\ log[i].kind = "description_change"
          /\ IsCall(j, "execute") /\ log[j].kind = "new_run"

\* ------------------------------------------------------------ C3
\* C3 as stated: once the scope is left after an error of the caller's code,
\* db.__exit__ has been called exactly once.
FinalizedOnceAfterCallerError ==
    (Left /\ args = "error") => NumCalls("db_exit") = 1

\* C3, amended: db.__exit__ is never called twice; once the scope is left
\* after an error of the caller's code it has been called exactly once when
\* no validate or execute call raised, and not at all when one did.
FinalizedOnceUnlessExitRaises ==
    /\ NumCalls("db_exit") <= 1
    /\ (Left /\ args = "error") =>
          NumCalls("db_exit") = IF SomeCallRaised THEN 0 ELSE 1

\* the caller's code raised with a record queued, every call of __exit__
\* returned and the session was finalized
FinalizedOnceWitness ==
    /\ pc = "raised"
    /\ args = "error"
    /\ NonEmptyKinds # {}
    /\ ~SomeCallRaised
    /\ NumCalls("db_exit") = 1

\* ------------------------------------------------------------ C4
\* the first error raised in the scope
OriginalError == IF args = "error" THEN "caller" ELSE exc

\* C4 as stated: an error that leaves the scope is the first one raised, and
\* db.__exit__ was called with the error information before it left.
OriginalErrorAfterAbandon ==
    /\ (Left /\ (args = "error" \/ SomeCallRaised)) => pc = "raised"
    /\ pc = "raised" =>
          /\ exc = OriginalError
          /\ \E i \in Calls : IsCall(i, "db_exit") /\ log[i].rec = "error"

\* C4, amended: every error raised in the scope leaves it.  When no validate
\* or execute call raises, the caller observes the error of its own code and
\* db.__exit__ was called with the error information, as the last call.
\* When a validate or execute call raises, the caller observes that error,
\* also after an error of its own code, and db.__exit__ was not called.
ErrorPropagates ==
    /\ (Left /\ (args = "error" \/ SomeCallRaised)) => pc = "raised"
    /\ pc = "done" => exc = "none"
    /\ pc = "raised" =>
          IF SomeCallRaised
          THEN /\ exc = log[Len(log)].op
               /\ log[Len(log)].res = "raised"
               /\ NumCalls("db_exit") = 0
          ELSE /\ exc = "caller"
               /\ args = "error"
               /\ IsCall(Len(log), "db_exit")
               /\ log[Len(log)].rec = "error"

\* the caller's code raised and then a validate call raised: the caller
\* observes the error of validate
ErrorPropagatesWitness ==
    /\ pc = "raised"
    /\ args = "error"
    /\ exc = "validate"

\* ------------------------------------------------------------ C5
\* the path of a queued record
PathOf(kind, x) ==
    CASE kind \in {"removal", "interrupt"} -> x
      [] kind = "move" -> x.src
      [] OTHER -> x.path

\* call i and call j are execute calls of one kind
ExecutedPair(i, j) ==
    /\ IsCall(i, "execute")
    /\ IsCall(j, "execute")
    /\ log[i].kind = log[j].kind

\* C5: of two execute calls of one kind, the later one is never for a path
\* with the smaller natural key; run-2 is executed before run-10 and exp/1
\* before exp/10.
NaturalOrdering ==
    \A i, j \in Calls :
        ExecutedPair(i, j) =>
            LET pi == PathOf(log[i].kind, log[i].rec)
                pj == PathOf(log[j].kind, log[j].rec)
            IN  /\ (i < j) => ~KeyLess(natural_keys(pj), natural_keys(pi))
                /\ (pi = Run2 /\ pj = Run10) => i < j
                /\ (pi = Exp1 /\ pj = Exp10) => i < j

\* run-10 was added before run-2, exp/10 before exp/1, and all were executed
NaturalOrderingWitness ==
    /\ pc = "done"
    /\ \E kind \in Kinds :
          /\ Len(Executed(kind)) >= 3
          /\ \E i, j \in Calls :
                /\ i < j
                /\ IsCall(i, "add") /\ IsCall(j, "add")
                /\ log[i].kind = kind /\ log[j].kind = kind
                /\ PathOf(kind, log[i].rec) = Run10
                /\ PathOf(kind, log[j].rec) = Run2
          /\ \E i \in Calls :
                /\ IsCall(i, "execute") /\ log[i].kind = kind
                /\ PathOf(kind, log[i].rec) \in {Exp1, Exp10}

\* ------------------------------------------------------------ C6
\* C6: no sort, validate or execute call is made on a sub-transaction whose
\* queue is empty.
EmptyQueueSkip ==
    \A i \in Calls :
        log[i].op \in {"sort", "validate", "execute"} => queue[log[i].kind] # <<>>

\* the scope was left with one kind queued and executed, the other four
\* empty
EmptyQueueSkipWitness ==
    /\ Left
    /\ Cardinality(NonEmptyKinds) = 1
    /\ NumCalls("execute") >= 1
    /\ NumCalls("sort") = 1
    /\ NumCalls("validate") = 1

\* ------------------------------------------------------------ C7
\* every queued record of every kind was passed to execute, in queue order
AllExecuted == \A kind \in Kinds : Executed(kind) = queue[kind]

\* C7: after an error of the caller's code the scope is left either on a
\* validate or execute call that raised or through db.__exit__; when
\* db.__exit__ is called, every non-empty queue was sorted and validated and
\* every queued record executed before it.
PhasesRunOnCallerError ==
    args = "error" =>
        /\ Left => (SomeCallRaised \/ NumCalls("db_exit") = 1)
        /\ \A i \in Calls :
              IsCall(i, "db_exit") =>
                  /\ i = Len(log)
                  /\ AllExecuted
                  /\ \A kind \in NonEmptyKinds :
                        \E s, v \in 1..(i - 1) :
                            /\ IsCall(s, "sort") /\ log[s].kind = kind
                            /\ IsCall(v, "validate") /\ log[v].kind = kind

\* the caller's code raised after queueing two records, both were executed
\* and the session was then finalized
PhasesRunOnCallerErrorWitness ==
    /\ pc = "raised"
    /\ args = "error"
    /\ NumCalls("add") = 2
    /\ NumCalls("execute") = 2
    /\ IsCall(Len(log), "db_exit")

\* ------------------------------------------------------------ C8
\* C8: a validate or execute call that raised is the last call made: the
\* error leaves the scope as the one the caller observes, db.__exit__ is not
\* called and nothing is called for the records already executed.
RaiseSkipsFinalize ==
    \A i \in Calls :
        log[i].res = "raised" =>
            /\ i = Len(log)
            /\ pc = "raised"
            /\ exc = log[i].op
            /\ NumCalls("db_exit") = 0

\* an execute call raised after an execute call of an earlier record returned
RaiseSkipsFinalizeWitness ==
    /\ pc = "raised"
    /\ exc = "execute"
    /\ \E i, j \in Calls :
          /\ i < j
          /\ IsCall(i, "execute") /\ log[i].res = "ok"
          /\ IsCall(j, "execute") /\ log[j].res = "raised"

ConflictingTarget ==
    \E i \in 1..Len(queue["removal"]), j \in 1..Len(queue["move"]) :
        queue["removal"][i] = queue["move"][j].dest

SortedKinds == {log[i].kind : i \in {c \in Calls : IsCall(c, "sort") /\ log[c].res = "ok"}}

\* C11: a queue the sort phase has assigned is left as it is by the ordering
\* of the sort phase applied once more.
SortIdempotent ==
    \A kind \in SortedKinds : sorted(kind, queue[kind]) = queue[kind]

\* a queue of three records was added out of order, two of them of equal
\* key, and has been sorted
SortIdempotentWitness ==
    \E kind \in SortedKinds :
        /\ Len(queue[kind]) = 3
        /\ \E i \in 1..3 : PathOf(kind, queue[kind][i]) = Run2
        /\ \E i \in 1..3 : PathOf(kind, queue[kind][i]) = Run02
        /\ \E i, j \in Calls :
              /\ i < j
              /\ IsCall(i, "add") /\ IsCall(j, "add")
              /\ PathOf(kind, log[i].rec) = Run10
              /\ PathOf(kind, log[j].rec) = Run2

\* ------------------------------------------------------------ C12
\* the step appends one record to the queue of kind and leaves the queues
\* of the other kinds as they are
AppendsTo(kind) ==
    /\ Len(queue'[kind]) = Len(queue[kind]) + 1
    /\ SubSeq(queue'[kind], 1, Len(queue[kind])) = queue[kind]
    /\ \A other \in Kinds \ {kind} : queue'[other] = queue[other]

\* C12: each add_* method appends one record to the queue of its own kind
\* and leaves the other queues unchanged; a step inside the scope appends
\* one record to one queue and makes no call but that add.
AddFrame ==
    [][/\ add_run => AppendsTo("new_run")
       /\ move => AppendsTo("move")
       /\ remove => AppendsTo("removal")
       /\ interrupt => AppendsTo("interrupt")
       /\ change_description => AppendsTo("description_change")
       /\ (pc = "scope" /\ pc' = "scope") =>
             /\ \E kind \in Kinds :
                   /\ AppendsTo(kind)
                   /\ log' = Append(log, Event("add", kind,
                                               queue'[kind][Len(queue'[kind])], "ok"))
             /\ persisted' = persisted]_vars

\* a removal was queued after a move, and the scope is still open
AddFrameWitness ==
    /\ pc = "scope"
    /\ Len(queue["move"]) = 1
    /\ Len(queue["removal"]) = 1
    /\ IsCall(2, "add") /\ log[2].kind = "move"
    /\ IsCall(3, "add") /\ log[3].kind = "removal"

\* ------------------------------------------------------------ C13
\* the records passed to the add of kind, in call order
Added(kind) ==
    LET calls == SelectSeq(log, LAMBDA e : e.op = "add" /\ e.kind = kind)
    IN  [i \in 1..Len(calls) |-> calls[i].rec]

Count(q, x) == Cardinality({i \in 1..Len(q) : q[i] = x})

\* q holds the records of r with their multiplicities
IsPermutation(q, r) ==
    /\ Len(q) = Len(r)
    /\ \A i \in 1..Len(r) : Count(q, r[i]) = Count(r, r[i])

\* C13: every queue holds the added records of its kind with their
\* multiplicities, before and after the sort; once the scope is left with
\* nothing raised, the records executed for a kind are the added ones, each
\* as often as it was added.
ExecutedExactlyOnce ==
    /\ \A kind \in Kinds : IsPermutation(queue[kind], Added(kind))
    /\ (Left /\ ~SomeCallRaised) =>
          \A kind \in Kinds : IsPermutation(Executed(kind), Added(kind))

\* the same removal was added twice and executed twice
ExecutedExactlyOnceWitness ==
    /\ pc = "done"
    /\ Len(Added("removal")) = 2
    /\ Added("removal")[1] = Added("removal")[2]
    /\ Len(Executed("removal")) = 2

\* ------------------------------------------------------------ C14
PhaseRank(op) ==
    CASE op = "sort" -> 1
      [] op = "validate" -> 2
      [] op = "execute" -> 3
      [] OTHER -> 0

PhaseCalls == {i \in Calls : PhaseRank(log[i].op) > 0}

\* no record of q has a smaller key than a record before it
IsSorted(kind, q) ==
    \A i, j \in 1..Len(q) :
        i < j => ~KeyLess(natural_keys(str(kind, q[j])), natural_keys(str(kind, q[i])))

\* C14: the sort calls precede the validate calls, which precede the execute
\* calls; once a validate call has been made, every non-empty queue has been
\* sorted and is in sorted order.
PhasesDoNotInterleave ==
    /\ \A i, j \in PhaseCalls : i < j => PhaseRank(log[i].op) <= PhaseRank(log[j].op)
    /\ (\E i \in Calls : IsCall(i, "validate")) =>
          \A kind \in NonEmptyKinds :
              kind \in SortedKinds /\ IsSorted(kind, queue[kind])

\* the first validate call, of the interrupts, has just been made; the
\* removals, validated next, were added out of order and are sorted
PhasesDoNotInterleaveWitness ==
    /\ pc = "loop"
    /\ IsCall(Len(log), "validate")
    /\ log[Len(log)].kind = "interrupt"
    /\ NumCalls("validate") = 1
    /\ Len(Added("removal")) >= 2
    /\ Added("removal")[1] = Run10
    /\ Added("removal")[2] = Run2
    /\ queue["removal"][1] = Run2

\* ------------------------------------------------------------ C15
\* C15: no validate or execute call follows one that raised; when an execute
\* call raises, the records executed for its kind are the queue up to the
\* record that raised, and nothing is executed for the kinds after it.
FailFast ==
    \A i \in Calls :
        (log[i].res = "raised" /\ log[i].op \in {"validate", "execute"}) =>
            /\ \A j \in Calls : j > i => log[j].op \notin {"validate", "execute"}
            /\ log[i].op = "validate" => NumCalls("execute") = 0
            /\ log[i].op = "execute" =>
                  /\ Executed(log[i].kind)
                        = SubSeq(queue[log[i].kind], 1, Len(Executed(log[i].kind)))
                  /\ \A kind \in Kinds :
                        KindRank(kind) > KindRank(log[i].kind) => Executed(kind) = <<>>

\* the execute of the first of two interrupts raised with a removal queued
\* behind: the second interrupt and the removal are not executed
FailFastWitness ==
    /\ pc = "raised"
    /\ exc = "execute"
    /\ Len(queue["interrupt"]) = 2
    /\ Len(queue["removal"]) = 1
    /\ NumCalls("execute") = 1

\* ------------------------------------------------------------ a further exit
\* __exit__(None, None, None) called once more on the instance whose scope
\* has returned
ExitAgain ==
    /\ pc = "done"
    /\ NumCalls("db_exit") = 1
    /\ EnterExit("none")
    /\ UNCHANGED <<queue, persisted, log, exc>>

NextReuse == Next \/ ExitAgain

SpecReuse == Init /\ [][NextReuse]_vars

\* ------------------------------------------------------------ C16
\* C16 as stated: once db.__exit__ has been called every queue is empty, and
\* no kind is validated more than once or executed more often than records
\* were added to it.
QueuesEmptyAfterFinalize ==
    NumCalls("db_exit") >= 1 =>
        \A kind \in Kinds :
            /\ queue[kind] = <<>>
            /\ Len(Executed(kind)) <= Len(Added(kind))
            /\ Len(SelectSeq(log, LAMBDA e : e.op = "validate" /\ e.kind = kind)) <= 1

\* C16, amended: the queues keep their records.  Once db.__exit__ has been
\* called every queue holds the added records of its kind in sorted order,
\* each executed once, in that order; when a further exit of the instance
\* reaches db.__exit__, every record has been executed a second time.
QueuesKeptAfterFinalize ==
    /\ NumCalls("db_exit") >= 1 =>
          \A kind \in Kinds :
              /\ IsPermutation(queue[kind], Added(kind))
              /\ IsSorted(kind, queue[kind])
    /\ (NumCalls("db_exit") = 1 /\ IsCall(Len(log), "db_exit")) =>
          \A kind \in Kinds : Executed(kind) = queue[kind]
    /\ NumCalls("db_exit") = 2 =>
          \A kind \in Kinds : Executed(kind) = queue[kind] \o queue[kind]

\* two interrupts were added out of order, executed, and executed again by a
\* further exit
QueuesKeptAfterFinalizeWitness ==
    /\ NumCalls("db_exit") = 2
    /\ Added("interrupt") = <<Run10, Run2>>
    /\ Len(Executed("interrupt")) = 4

\* ------------------------------------------------------------ keys alone
\* The coordinator at the start of __exit__ with the removal queue drawn
\* from the sequences over KeyPaths, every path persisted.
InitKeys ==
    /\ pc = "loop"
    /\ \E q \in SeqsUpTo(KeyPaths, MaxSortLen) :
          /\ queue = [kind \in Kinds |-> IF kind = "removal" THEN q ELSE <<>>]
          /\ log = AddsLog("removal", q)
    /\ persisted = KeyPaths
    /\ args = "none"
    /\ exc = "none"
    /\ phase = 1
    /\ k = 1
    /\ pos = 1

NextKeys == NextSort \/ SortRaise

SpecKeys == InitKeys /\ [][NextKeys]_vars

\* ------------------------------------------------------------ C17
\* the key has strings at the odd positions of the sequence (the even ones
\* of the Python list) and integers at the others
Alternates(key) == \A p \in 1..Len(key) : key[p].isint = (p % 2 = 0)

\* C17: every sort call returns, and natural_keys returns a key for the
\* string of every record of the queue it sorts, strings and integers
\* alternating in it.
KeysWellTyped ==
    \A c \in Calls :
        IsCall(c, "sort") =>
            /\ log[c].res = "ok"
            /\ \A i \in 1..Len(queue[log[c].kind]) :
                  LET text == str(log[c].kind, queue[log[c].kind][i])
                  IN  /\ ~natural_keys_raises(text)
                      /\ Alternates(natural_keys(text))


\* ------------------------------------------------------------ C18
\* the records of q whose key equals that of x (neither key is smaller than
\* the other), in the order of q
SameKey(kind, q, x) ==
    LET kx == natural_keys(str(kind, x))
    IN  SelectSeq(q, LAMBDA y :
            LET ky == natural_keys(str(kind, y))
            IN  ~KeyLess(kx, ky) /\ ~KeyLess(ky, kx))

\* the records of equal key stand in q in the order in which they were added
KeepsAddOrder(kind, q) ==
    \A i \in 1..Len(Added(kind)) :
        SameKey(kind, q, Added(kind)[i]) = SameKey(kind, Added(kind), Added(kind)[i])

\* C18: the records of equal key stand in the queue that has just been
\* sorted in the order in which they were added, and once the scope is left
\* with nothing raised they have been executed in that order.
SortStable ==
    /\ (IsCall(Len(log), "sort") /\ log[Len(log)].res = "ok") =>
          KeepsAddOrder(log[Len(log)].kind, queue[log[Len(log)].kind])
    /\ (Left /\ ~SomeCallRaised) =>
          \A kind \in NonEmptyKinds : KeepsAddOrder(kind, Executed(kind))

\* run-10, run-02 and run-2 were added in this order: run-02 and run-2 have
\* equal keys and were executed in this order, before run-10
SortStableWitness ==
    /\ pc = "done"
    /\ Added("removal") = <<Run10, Run02, Run2>>
    /\ Executed("removal") = <<Run02, Run2, Run10>>

====
